---- MODULE Spec2Model ----
(***************************************************************************)
(* Tabular dynamic programming of rlberry/agents/dynprog/utils.py:         *)
(* backward_induction, value_iteration and bellman_operator.               *)
(*                                                                         *)
(* Doubles are modelled as exact rationals <<n, d>> in lowest terms with   *)
(* d > 0; +inf is <<1, 0>>, -inf is <<-1, 0>> and NaN is <<0, 0>>.  The    *)
(* inputs are dyadic (denominators 1 and 2), on which IEEE double          *)
(* arithmetic is exact, so the rational results are the doubles the code   *)
(* computes.  Arrays are functions over 0-based index ranges.              *)
(***************************************************************************)
EXTENDS Integers, Sequences, FiniteSets, TLC

VARIABLES pc, R, P, gamma, horizon, vmax, epsilon, S, A, hh, ss, Q, V,
          Q_aux, TQ, iters,
          previous_obs, bonus_scale_factor, n_updates, completed,
          last_returned, last

\* the state of an UncertaintyEstimatorWrapper and of the calls made on it
wvars == <<previous_obs, bonus_scale_factor, n_updates, completed,
           last_returned, last>>

\* the state of the dynamic-programming routines
dpvars == <<R, P, gamma, horizon, vmax, epsilon, S, A, hh, ss, Q, V,
            Q_aux, TQ, iters>>

vars == <<pc, R, P, gamma, horizon, vmax, epsilon, S, A, hh, ss, Q, V,
          Q_aux, TQ, iters,
          previous_obs, bonus_scale_factor, n_updates, completed,
          last_returned, last>>

(***************************************************************************)
(* Bounds of the exploration.                                              *)
(***************************************************************************)
MaxHorizon == 3
MaxIters == 5
MaxCalls == 3

(***************************************************************************)
(* Double arithmetic.                                                      *)
(***************************************************************************)
AbsInt(n) == IF n < 0 THEN -n ELSE n

SignInt(n) == IF n < 0 THEN -1 ELSE IF n > 0 THEN 1 ELSE 0

RECURSIVE GCD(_, _)
GCD(a, b) == IF b = 0 THEN a ELSE GCD(b, a % b)

Norm(n, d) ==
    IF d = 0 THEN <<SignInt(n), 0>>
    ELSE LET g == GCD(AbsInt(n), d) IN <<n \div g, d \div g>>

Zero == <<0, 1>>
One == <<1, 1>>
Half == <<1, 2>>
Inf == <<1, 0>>
NegInf == <<-1, 0>>

IsFinite(x) == x[2] # 0

IsNaN(x) == x[1] = 0 /\ x[2] = 0

\* The arithmetic is written as functions on pairs of integers, so that an
\* operand is evaluated once, before the operation is applied to it.
Double == Int \X Int

fadd[x \in Double, y \in Double] ==
    IF x[2] = 0 /\ y[2] = 0
    THEN (IF x[1] = y[1] THEN x ELSE <<0, 0>>)
    ELSE Norm(x[1] * y[2] + y[1] * x[2], x[2] * y[2])

fneg[x \in Double] == <<-x[1], x[2]>>

fsub[x \in Double, y \in Double] == fadd[x, fneg[y]]

fmul[x \in Double, y \in Double] == Norm(x[1] * y[1], x[2] * y[2])

fabs[x \in Double] == <<AbsInt(x[1]), x[2]>>

\* x > y on doubles (false when either side is NaN)
fgt[x \in Double, y \in Double] ==
    IF x[2] = 0 /\ y[2] = 0
    THEN x[1] > y[1] /\ x[1] # 0 /\ y[1] # 0
    ELSE x[1] * y[2] > y[1] * x[2]

\* x <= y on doubles (false when either side is NaN)
fle[x \in Double, y \in Double] ==
    IF IsNaN(x) \/ IsNaN(y) THEN FALSE
    ELSE IF x[2] = 0 /\ y[2] = 0 THEN x[1] <= y[1]
    ELSE x[1] * y[2] <= y[1] * x[2]

\* P[ss, aa, :].dot(V): sum of p[i] * v[i] for i = 0 .. n-1, left to right
RECURSIVE dot(_, _, _)
dot(p, v, n) ==
    IF n = 0 THEN Zero
    ELSE fadd[dot(p, v, n - 1), fmul[p[n - 1], v[n - 1]]]

\* Q[ss, :].max() over the first n entries of a row (n >= 1); the max of
\* an array is NaN as soon as one of its entries is
RECURSIVE rowmax(_, _)
rowmax(row, n) ==
    IF n = 1 THEN row[0]
    ELSE LET m == rowmax(row, n - 1)
         IN IF IsNaN(m) THEN m
            ELSE IF IsNaN(row[n - 1]) \/ fgt[row[n - 1], m] THEN row[n - 1]
            ELSE m

\* np.zeros((S, A)), np.zeros(S), np.zeros((horizon, S)), ...
zeros1(n) == [i \in 0..(n - 1) |-> Zero]
zeros2(n, m) == [i \in 0..(n - 1) |-> zeros1(m)]
zeros3(k, n, m) == [i \in 0..(k - 1) |-> zeros2(n, m)]
full2(n, m, x) == [i \in 0..(n - 1) |-> [j \in 0..(m - 1) |-> x]]

(***************************************************************************)
(* Inputs: reward matrices, row-stochastic transition tensors, scalars.    *)
(***************************************************************************)
Shapes == {<<1, 1>>, <<1, 2>>, <<2, 1>>, <<2, 2>>}

RVals == {<<-1, 1>>, <<2, 1>>}
QVals == {<<-1, 1>>, Zero, <<3, 1>>}

Rows(s) ==
    IF s = 1 THEN {[i \in 0..0 |-> One]}
    ELSE {[i \in 0..1 |-> IF i = 0 THEN One ELSE Zero],
          [i \in 0..1 |-> IF i = 0 THEN Zero ELSE One],
          [i \in 0..1 |-> Half]}

RSet(s, a) == [0..(s - 1) -> [0..(a - 1) -> RVals]]
PSet(s, a) == [0..(s - 1) -> [0..(a - 1) -> Rows(s)]]

GammaVals == {Zero, Half, One, <<3, 2>>}
EpsilonVals == {Zero, Half, One}
VmaxVals == {Inf, One}
HorizonVals == 0..MaxHorizon

None == <<>>

\* Before any call: nothing is bound.  The integer-valued variables start at
\* 0 and last as a record, so that every variable keeps one kind of value.
Init ==
    /\ pc = "idle"
    /\ R = None /\ P = None /\ gamma = None /\ horizon = 0
    /\ vmax = None /\ epsilon = None /\ S = 0 /\ A = 0
    /\ hh = 0 /\ ss = 0 /\ Q = None /\ V = None
    /\ Q_aux = None /\ TQ = None /\ iters = 0
    /\ previous_obs = None /\ bonus_scale_factor = None /\ n_updates = 0
    /\ completed = 0 /\ last_returned = None /\ last = [op |-> "none"]

(***************************************************************************)
(* backward_induction                                                      *)
(***************************************************************************)
\* q_aa reading the row of V being written instead of the finished row hh+1
q_aa_same_row(r, p, g, h, v, ih, is, ia) ==
    IF ih < h - 1
    THEN fadd[r[is][ia], fmul[g, dot(p[is][ia], v[ih], Cardinality(DOMAIN r))]]
    ELSE r[is][ia]

\* lines 39-41: q_aa for (hh, ss, aa) given the current V
q_aa(r, p, g, h, v, ih, is, ia) ==
    IF ih < h - 1
    THEN fadd[r[is][ia], fmul[g, dot(p[is][ia], v[ih + 1], Cardinality(DOMAIN r))]]
    ELSE r[is][ia]

\* max_q overwritten by every q_aa (the comparison dropped)
max_q_last(qrow, n) == IF n = 0 THEN NegInf ELSE qrow[n - 1]

\* lines 37-43: running maximum of the first n entries, started at -inf
RECURSIVE max_q(_, _)
max_q(qrow, n) ==
    IF n = 0 THEN NegInf
    ELSE LET m == max_q(qrow, n - 1)
         IN IF fgt[qrow[n - 1], m] THEN qrow[n - 1] ELSE m

\* the clamp with its comparison reversed
clamp_reversed(m, vm) == IF fgt[vm, m] THEN vm ELSE m

\* lines 45-47: V[hh, ss] = max_q, clamped to vmax
clamp(m, vm) == IF fgt[m, vm] THEN vm ELSE m

\* lines 32-35: entry, allocation of V and Q, first value of hh
CallBackwardInduction ==
    /\ pc = "idle"
    /\ \E sh \in Shapes, g \in GammaVals, h \in HorizonVals, vm \in VmaxVals :
         \E r \in RSet(sh[1], sh[2]), p \in PSet(sh[1], sh[2]) :
            /\ R' = r /\ P' = p /\ gamma' = g /\ horizon' = h /\ vmax' = vm
            /\ S' = sh[1] /\ A' = sh[2]
            /\ V' = zeros2(h, sh[1])
            /\ Q' = zeros3(h, sh[1], sh[2])
            /\ hh' = h - 1 /\ ss' = 0
    /\ pc' = "bi_loop"
    /\ UNCHANGED <<epsilon, Q_aux, TQ, iters>>
    /\ UNCHANGED wvars

\* lines 36-47: one iteration of the loop over ss, for the current hh
BackwardInductionStep ==
    /\ pc = "bi_loop"
    /\ hh >= 0
    /\ LET qrow == [aa \in 0..(A - 1) |->
                       q_aa(R, P, gamma, horizon, V, hh, ss, aa)]
       IN /\ Q' = [Q EXCEPT ![hh][ss] = qrow]
          /\ V' = [V EXCEPT ![hh][ss] = clamp(max_q(qrow, A), vmax)]
    /\ IF ss + 1 < S
       THEN ss' = ss + 1 /\ hh' = hh
       ELSE ss' = 0 /\ hh' = hh - 1
    /\ UNCHANGED <<pc, R, P, gamma, horizon, vmax, epsilon, S, A,
                   Q_aux, TQ, iters>>
    /\ UNCHANGED wvars

\* line 48: return Q, V
BackwardInductionReturn ==
    /\ pc = "bi_loop"
    /\ hh < 0
    /\ pc' = "bi_done"
    /\ UNCHANGED <<R, P, gamma, horizon, vmax, epsilon, S, A, hh, ss, Q, V,
                   Q_aux, TQ, iters>>
    /\ UNCHANGED wvars

(***************************************************************************)
(* bellman_operator                                                        *)
(***************************************************************************)
\* the operator updating Q in place: the max for a state already swept is
\* taken over the new values
RECURSIVE inplace_rows(_, _, _, _, _)
inplace_rows(q, r, p, g, n) ==
    IF n = 0 THEN q
    ELSE LET cur == inplace_rows(q, r, p, g, n - 1)
             s == Cardinality(DOMAIN q)
             a == Cardinality(DOMAIN q[0])
             v == [is \in 0..(s - 1) |-> rowmax(cur[is], a)]
         IN [cur EXCEPT ![n - 1] = [ia \in 0..(a - 1) |->
                fadd[r[n - 1][ia], fmul[g, dot(p[n - 1][ia], v, s)]]]]

bellman_operator_inplace(q, r, p, g) ==
    inplace_rows(q, r, p, g, Cardinality(DOMAIN q))

\* the operator with the discount factor left out
bellman_operator_undiscounted(q, r, p, g) ==
    LET s == Cardinality(DOMAIN q)
        a == Cardinality(DOMAIN q[0])
        v == [is \in 0..(s - 1) |-> rowmax(q[is], a)]
    IN [is \in 0..(s - 1) |-> [ia \in 0..(a - 1) |->
           fadd[r[is][ia], dot(p[is][ia], v, s)]]]

\* lines 112-122
bellman_operator(q, r, p, g) ==
    LET s == Cardinality(DOMAIN q)
        a == Cardinality(DOMAIN q[0])
        v == [is \in 0..(s - 1) |-> rowmax(q[is], a)]
    IN [is \in 0..(s - 1) |-> [ia \in 0..(a - 1) |->
           fadd[r[is][ia], fmul[g, dot(p[is][ia], v, s)]]]]

\* a direct call bellman_operator(Q, R, P, gamma) on an arbitrary Q
CallBellmanOperator ==
    /\ pc = "idle"
    /\ \E sh \in Shapes, g \in GammaVals \ {Zero} :
         \E r \in RSet(sh[1], sh[2]), p \in PSet(sh[1], sh[2]),
            q \in [0..(sh[1] - 1) -> [0..(sh[2] - 1) -> QVals]] :
            /\ R' = r /\ P' = p /\ gamma' = g
            /\ S' = sh[1] /\ A' = sh[2]
            /\ Q' = q
            /\ TQ' = bellman_operator(q, r, p, g)
    /\ pc' = "bo_done"
    /\ UNCHANGED <<horizon, vmax, epsilon, hh, ss, V, Q_aux, iters>>
    /\ UNCHANGED wvars

(***************************************************************************)
(* value_iteration                                                         *)
(***************************************************************************)
\* line 77: np.abs(Q - Q_aux).max(), over the first n entries of the
\* row-major flattening of the S x A arrays
RECURSIVE absdiffmax(_, _, _, _)
absdiffmax(q, qa, a, n) ==
    LET is == (n - 1) \div a
        ia == (n - 1) % a
        d == fabs[fsub[q[is][ia], qa[is][ia]]]
    IN IF n = 1 THEN d
       ELSE LET m == absdiffmax(q, qa, a, n - 1)
            IN IF IsNaN(m) THEN m
               ELSE IF IsNaN(d) \/ fgt[d, m] THEN d
               ELSE m

\* the loop condition on the signed difference (np.abs left out)
RECURSIVE diffmax(_, _, _, _)
diffmax(q, qa, a, n) ==
    LET is == (n - 1) \div a
        ia == (n - 1) % a
        d == fsub[q[is][ia], qa[is][ia]]
    IN IF n = 1 THEN d
       ELSE LET m == diffmax(q, qa, a, n - 1)
            IN IF IsNaN(m) THEN m
               ELSE IF IsNaN(d) \/ fgt[d, m] THEN d
               ELSE m

loop_condition_signed(q, qa, eps) ==
    fgt[diffmax(q, qa, Cardinality(DOMAIN q[0]),
                Cardinality(DOMAIN q) * Cardinality(DOMAIN q[0])), eps]

\* line 77: the loop condition
loop_condition(q, qa, eps) ==
    fgt[absdiffmax(q, qa, Cardinality(DOMAIN q[0]),
                   Cardinality(DOMAIN q) * Cardinality(DOMAIN q[0])), eps]

\* lines 74-76: entry, Q = 0 and Q_aux = +inf
CallValueIteration ==
    /\ pc = "idle"
    /\ \E sh \in Shapes, g \in GammaVals, eps \in EpsilonVals :
         \E r \in RSet(sh[1], sh[2]), p \in PSet(sh[1], sh[2]) :
            /\ R' = r /\ P' = p /\ gamma' = g /\ epsilon' = eps
            /\ S' = sh[1] /\ A' = sh[2]
            /\ Q' = zeros2(sh[1], sh[2])
            /\ Q_aux' = full2(sh[1], sh[2], Inf)
    /\ iters' = 0
    /\ pc' = "vi_loop"
    /\ UNCHANGED <<horizon, vmax, hh, ss, V, TQ>>
    /\ UNCHANGED wvars

\* the loop body writing the update into the array Q_aux refers to
ValueIterationStep_aliased ==
    /\ pc = "vi_loop"
    /\ loop_condition(Q, Q_aux, epsilon)
    /\ iters < MaxIters
    /\ Q' = bellman_operator(Q, R, P, gamma)
    /\ Q_aux' = Q'
    /\ iters' = iters + 1
    /\ UNCHANGED <<pc, R, P, gamma, horizon, vmax, epsilon, S, A, hh, ss,
                   V, TQ>>
    /\ UNCHANGED wvars

\* lines 77-79: one iteration of the while loop
ValueIterationStep ==
    /\ pc = "vi_loop"
    /\ loop_condition(Q, Q_aux, epsilon)
    /\ iters < MaxIters
    /\ Q_aux' = Q
    /\ Q' = bellman_operator(Q, R, P, gamma)
    /\ iters' = iters + 1
    /\ UNCHANGED <<pc, R, P, gamma, horizon, vmax, epsilon, S, A, hh, ss,
                   V, TQ>>
    /\ UNCHANGED wvars

\* V derived from the previous iterate
final_V_stale == [is \in 0..(S - 1) |-> rowmax(Q_aux[is], A)]

\* lines 81-84: V[ss] = Q[ss, :].max()
final_V == [is \in 0..(S - 1) |-> rowmax(Q[is], A)]

\* lines 77, 81-85: the loop exits, V is derived, return Q, V
ValueIterationReturn ==
    /\ pc = "vi_loop"
    /\ ~loop_condition(Q, Q_aux, epsilon)
    /\ V' = final_V
    /\ pc' = "vi_done"
    /\ UNCHANGED <<R, P, gamma, horizon, vmax, epsilon, S, A, hh, ss, Q,
                   Q_aux, TQ, iters>>
    /\ UNCHANGED wvars

(***************************************************************************)
(* UncertaintyEstimatorWrapper (wrappers/uncertainty_estimator_wrapper.py)  *)
(*                                                                         *)
(* The wrapped environment and the estimator are collaborators: what they  *)
(* return is drawn from small sets.  Observations are never None.  An info *)
(* dict is a function from its keys to its values.  n_updates counts the   *)
(* calls of uncertainty_estimator.update; completed, last_returned and     *)
(* last record the calls made on the wrapper and what they returned.       *)
(***************************************************************************)
ObsVals == {<<0>>, <<1>>}
ActionVals == {0, 1}
RewardVals == {Zero, One}
MeasureVals == {Zero, One}
ScaleVals == {One, <<2, 1>>}
EnvInfoVals == {None,
                [k \in {"steps"} |-> One],
                [k \in {"exploration_bonus"} |-> <<5, 1>>]}

\* lines 40-50: the bonus, and the update calls made, m being the value
\* uncertainty_estimator.measure(state, action) returns
update_and_get_bonus(self_previous_obs, scale, state, action, next_state, reward, m) ==
    IF self_previous_obs = None
    THEN [bonus |-> Zero, updates |-> <<>>]
    ELSE [bonus |-> fmul[scale, m],
          updates |-> <<[state |-> state, action |-> action,
                         next_state |-> next_state, reward |-> reward]>>]

\* lines 64-71: info, or a new dict when it is None, with the bonus stored
add_bonus(info, bonus) ==
    LET d == IF info = None THEN <<>> ELSE info
    IN [k \in (DOMAIN d) \cup {"exploration_bonus"} |->
           IF k = "exploration_bonus" THEN bonus ELSE d[k]]

\* lines 29-34: __init__
WrapperInit ==
    /\ pc = "idle"
    /\ pc' = "wrapper"
    /\ \E scale \in ScaleVals : bonus_scale_factor' = scale
    /\ previous_obs' = None
    /\ n_updates' = 0
    /\ completed' = 0
    /\ last_returned' = None
    /\ last' = [op |-> "init"]
    /\ UNCHANGED dpvars

\* reset() returning the observation without storing it
WrapperReset_forgets ==
    /\ pc = "wrapper"
    /\ completed < MaxCalls
    /\ \E observation \in ObsVals :
          /\ last_returned' = observation
          /\ last' = [op |-> "reset", observation |-> observation]
    /\ completed' = completed + 1
    /\ UNCHANGED <<pc, previous_obs, bonus_scale_factor, n_updates>>
    /\ UNCHANGED dpvars

\* lines 36-38: reset()
WrapperReset ==
    /\ pc = "wrapper"
    /\ completed < MaxCalls
    /\ \E observation \in ObsVals :
          /\ previous_obs' = observation
          /\ last_returned' = observation
          /\ last' = [op |-> "reset", observation |-> observation]
    /\ completed' = completed + 1
    /\ UNCHANGED <<pc, bonus_scale_factor, n_updates>>
    /\ UNCHANGED dpvars

\* lines 52-73: step(action)
WrapperStep ==
    /\ pc = "wrapper"
    /\ completed < MaxCalls
    /\ \E action \in ActionVals, observation \in ObsVals,
          reward \in RewardVals, done \in BOOLEAN, info \in EnvInfoVals,
          m \in MeasureVals :
          LET r == update_and_get_bonus(previous_obs, bonus_scale_factor,
                                        previous_obs, action, observation,
                                        reward, m)
          IN /\ previous_obs' = observation
             /\ n_updates' = n_updates + Len(r.updates)
             /\ last_returned' = observation
             /\ last' = [op |-> "step",
                         observation |-> observation,
                         reward |-> reward,
                         done |-> done,
                         info |-> add_bonus(info, r.bonus),
                         bonus |-> r.bonus,
                         updates |-> r.updates,
                         completed_before |-> completed,
                         returned_before |-> last_returned]
    /\ completed' = completed + 1
    /\ UNCHANGED <<pc, bonus_scale_factor>>
    /\ UNCHANGED dpvars

Next ==
    \/ WrapperInit
    \/ WrapperReset
    \/ WrapperStep
    \/ CallBackwardInduction
    \/ BackwardInductionStep
    \/ BackwardInductionReturn
    \/ CallBellmanOperator
    \/ CallValueIteration
    \/ ValueIterationStep
    \/ ValueIterationReturn

Spec == Init /\ [][Next]_vars

\* the while loop of value_iteration keeps running: each of its two
\* continuations is taken when it is enabled
FairSpec ==
    Spec /\ WF_vars(ValueIterationStep) /\ WF_vars(ValueIterationReturn)

(***************************************************************************)
(* Vocabulary of the properties.                                           *)
(***************************************************************************)
States == 0..(S - 1)
Actions == 0..(A - 1)

\* the greatest element of a non-empty set of doubles
MaxOf(set) == CHOOSE m \in set : \A x \in set : fle[x, m]

\* sum of f[i] over the indices in D
RECURSIVE SumOver(_, _)
SumOver(f, D) ==
    IF D = {} THEN Zero
    ELSE LET i == CHOOSE j \in D : TRUE
         IN fadd[f[i], SumOver(f, D \ {i})]

\* R[s,a] + gamma * sum_{s'} P[s,a,s'] * v[s']
Backup(v, s, a) ==
    fadd[R[s][a],
         fmul[gamma, SumOver([t \in States |-> fmul[P[s][a][t], v[t]]], States)]]

\* max_a q[s,a] for every state s
Greedy(q) == [t \in States |-> MaxOf({q[t][a] : a \in Actions})]

\* the entry (hh, ss) of backward_induction has been written
Written(h, s) == h > hh \/ (h = hh /\ s < ss)

InBackwardInduction == pc \in {"bi_loop", "bi_done"}

\* the right-hand side of the backward recursion for Q[h,s,a]
Recursion(h, s, a) ==
    IF h = horizon - 1 THEN R[s][a] ELSE Backup(V[h + 1], s, a)

ValidGamma == fle[Zero, gamma] /\ fle[gamma, One]
Discounted == fle[Zero, gamma] /\ fgt[One, gamma]

(***************************************************************************)
(* C1: bellman_operator(Q, R, P, gamma) returns an S x A array TQ with     *)
(* TQ[s,a] = R[s,a] + gamma * sum_{s'} P[s,a,s'] * max_{a'} Q[s',a'], the  *)
(* max being over the input Q; this holds of a direct call and of every    *)
(* call made by value_iteration (input Q_aux, output Q).                   *)
(***************************************************************************)
BellmanOperatorContract ==
    /\ pc = "bo_done" =>
          /\ DOMAIN TQ = States
          /\ \A s \in States :
                /\ DOMAIN TQ[s] = Actions
                /\ \A a \in Actions : TQ[s][a] = Backup(Greedy(Q), s, a)
    /\ (pc \in {"vi_loop", "vi_done"} /\ iters >= 1) =>
          \A s \in States, a \in Actions : Q[s][a] = Backup(Greedy(Q_aux), s, a)

\* a call whose result depends on the max over the input and on P
BellmanOperatorWitness ==
    /\ pc = "bo_done" /\ S = 2 /\ A = 2
    /\ gamma = Half
    /\ P[1][0][0] = Half
    /\ Q[0][0] # Q[0][1]
    /\ TQ[1][0] # R[1][0]

(***************************************************************************)
(* C2: every written entry of backward_induction satisfies the backward    *)
(* recursion: Q[H-1,s,a] = R[s,a], and for h < H-1, Q[h,s,a] = R[s,a] +    *)
(* gamma * sum_{s'} P[s,a,s'] * V[h+1,s'] with the (clamped, final) row    *)
(* h+1 of V; in particular it holds of the returned Q and V.               *)
(***************************************************************************)
BackwardRecursion ==
    InBackwardInduction =>
        \A h \in 0..(horizon - 1), s \in States :
            Written(h, s) => \A a \in Actions : Q[h][s][a] = Recursion(h, s, a)

\* a return where the continuation term, taken from a clamped V, matters
BackwardRecursionWitness ==
    /\ pc = "bi_done" /\ horizon >= 2
    /\ \E s \in States, a \in Actions :
          /\ Q[horizon - 1][s][a] = R[s][a]
          /\ Q[0][s][a] # R[s][a]
    /\ \E s \in States : V[1][s] = vmax

(***************************************************************************)
(* C3: with a finite vmax every written V[h,s] is <= vmax, while Q is not  *)
(* clamped: Q[h,s,a] is the value the recursion computes and may exceed    *)
(* vmax.                                                                   *)
(***************************************************************************)
VmaxClampsOnlyV ==
    (InBackwardInduction /\ IsFinite(vmax)) =>
        \A h \in 0..(horizon - 1), s \in States :
            Written(h, s) =>
                /\ fle[V[h][s], vmax]
                /\ \A a \in Actions : Q[h][s][a] = Recursion(h, s, a)

\* a return with a finite vmax and an entry of Q above it
VmaxClampsOnlyVWitness ==
    /\ pc = "bi_done" /\ IsFinite(vmax) /\ horizon >= 1
    /\ \E h \in 0..(horizon - 1), s \in States, a \in Actions :
          fgt[Q[h][s][a], vmax] /\ V[h][s] = vmax

(***************************************************************************)
(* C4 as stated: for the returned (Q, V), V[h,s] = max_a Q[h,s,a] for      *)
(* every h and s.                                                          *)
(***************************************************************************)
VIsRowMaxOfQ ==
    pc = "bi_done" =>
        \A h \in 0..(horizon - 1), s \in States :
            V[h][s] = MaxOf({Q[h][s][a] : a \in Actions})

(***************************************************************************)
(* C4 amended: for the returned (Q, V), V[h,s] = min(vmax, max_a Q[h,s,a]) *)
(* for every h and s.                                                      *)
(***************************************************************************)
VIsClampedRowMaxOfQ ==
    pc = "bi_done" =>
        \A h \in 0..(horizon - 1), s \in States :
            LET m == MaxOf({Q[h][s][a] : a \in Actions})
            IN /\ fle[m, vmax] => V[h][s] = m
               /\ fgt[m, vmax] => V[h][s] = vmax

\* a return with one entry of V clamped and another equal to the row max,
\* the max not being the last action's value
VIsClampedRowMaxOfQWitness ==
    /\ pc = "bi_done" /\ A = 2
    /\ \E h \in 0..(horizon - 1), s \in States :
          fgt[MaxOf({Q[h][s][a] : a \in Actions}), V[h][s]]
    /\ \E h \in 0..(horizon - 1), s \in States :
          V[h][s] = Q[h][s][0] /\ fgt[Q[h][s][0], Q[h][s][1]]

(***************************************************************************)
(* C5: with vmax = +inf, backward_induction agrees with H applications of  *)
(* bellman_operator from the zero array: for k in 0..H-1, Q[H-1-k] is the  *)
(* (k+1)-th iterate and V[H-1-k] its row-wise max.                         *)
(***************************************************************************)
RECURSIVE BellmanIterate(_)
BellmanIterate(k) ==
    IF k = 0 THEN zeros2(S, A)
    ELSE bellman_operator(BellmanIterate(k - 1), R, P, gamma)

BackwardInductionIsIteratedBellman ==
    (pc = "bi_done" /\ vmax = Inf) =>
        \A k \in 0..(horizon - 1) :
            /\ Q[horizon - 1 - k] = BellmanIterate(k + 1)
            /\ V[horizon - 1 - k] = Greedy(BellmanIterate(k + 1))

\* an uncapped return over three steps whose rows all differ
BackwardInductionIsIteratedBellmanWitness ==
    /\ pc = "bi_done" /\ vmax = Inf /\ horizon >= 3 /\ gamma = Half
    /\ Q[0] # Q[1] /\ Q[1] # Q[2]

(***************************************************************************)
(* C6: when value_iteration returns, with 0 <= gamma < 1 and epsilon > 0,  *)
(* the loop body has run at least once, the returned Q and the iterate     *)
(* before it differ by at most epsilon in every entry, and Q is within     *)
(* epsilon of its own Bellman update in every entry.                       *)
(***************************************************************************)
ValueIterationStopsWithinEpsilon ==
    (pc = "vi_done" /\ Discounted /\ fgt[epsilon, Zero]) =>
        /\ iters >= 1
        /\ \A s \in States, a \in Actions :
              /\ IsFinite(Q_aux[s][a])
              /\ fle[fabs[fsub[Q[s][a], Q_aux[s][a]]], epsilon]
              /\ fle[fabs[fsub[Q[s][a], Backup(Greedy(Q), s, a)]], epsilon]

\* a return after several iterations, short of the fixed point
ValueIterationStopsWithinEpsilonWitness ==
    /\ pc = "vi_done" /\ gamma = Half /\ fgt[epsilon, Zero]
    /\ iters >= 3
    /\ Q # Q_aux

(***************************************************************************)
(* C7: with 0 <= gamma < 1 and epsilon > 0 the loop of value_iteration     *)
(* terminates, and each iteration after the first shrinks the max          *)
(* absolute difference of consecutive iterates to at most gamma times its  *)
(* previous value.                                                         *)
(***************************************************************************)
MaxDiff(q, qa) ==
    MaxOf({fabs[fsub[q[s][a], qa[s][a]]] : s \in States, a \in Actions})

ValueIterationTerminates ==
    /\ (pc = "vi_loop" /\ Discounted /\ fgt[epsilon, Zero]) ~> (pc = "vi_done")
    /\ [][(pc = "vi_loop" /\ Discounted /\ iters >= 1 /\ iters' = iters + 1)
             => fle[MaxDiff(Q', Q_aux'), fmul[gamma, MaxDiff(Q, Q_aux)]]]_vars

\* a discounted run that took three iterations to come within epsilon
ValueIterationTerminatesWitness ==
    /\ pc = "vi_done" /\ Discounted /\ fgt[epsilon, Zero]
    /\ iters = 3
    /\ MaxDiff(Q, Q_aux) = epsilon

(***************************************************************************)
(* C8: for the (Q, V) returned by value_iteration, V[s] = max_a Q[s,a]     *)
(* for every state s, Q being the final iterate.                           *)
(***************************************************************************)
ValueIterationVIsRowMax ==
    pc = "vi_done" =>
        /\ DOMAIN V = States
        /\ \A s \in States : V[s] = MaxOf({Q[s][a] : a \in Actions})

\* a return where the previous iterate has a different row max
ValueIterationVIsRowMaxWitness ==
    /\ pc = "vi_done" /\ iters >= 2 /\ A = 2
    /\ \E s \in States :
          /\ Q[s][0] # Q[s][1]
          /\ MaxOf({Q[s][a] : a \in Actions}) # MaxOf({Q_aux[s][a] : a \in Actions})

(***************************************************************************)
(* C9 as stated: invalid scalar parameters never lead to returned arrays:  *)
(* backward_induction returns only with horizon >= 1 and gamma in [0,1],   *)
(* value_iteration only with gamma in [0,1] and epsilon > 0.               *)
(***************************************************************************)
InvalidParametersRejected ==
    /\ pc = "bi_done" => (horizon >= 1 /\ ValidGamma)
    /\ pc = "vi_done" => (ValidGamma /\ fgt[epsilon, Zero])

(***************************************************************************)
(* C10: value_iteration has no iteration cap: with gamma = 1 and every     *)
(* reward above epsilon (as with one state, one action, P = 1, R >         *)
(* epsilon), the loop condition holds before every iteration, each         *)
(* iteration of the one-state case adds R to Q, and the function never     *)
(* returns.                                                                *)
(***************************************************************************)
NeverConverging ==
    /\ gamma = One
    /\ \A s \in States, a \in Actions : fgt[R[s][a], epsilon]

UndiscountedLoopNeverExits ==
    (pc \in {"vi_loop", "vi_done"} /\ NeverConverging) =>
        /\ pc = "vi_loop"
        /\ loop_condition(Q, Q_aux, epsilon)
        /\ (S = 1 /\ A = 1) => Q[0][0] = fmul[<<iters, 1>>, R[0][0]]

\* the one-state run, still looping after as many iterations as explored
UndiscountedLoopNeverExitsWitness ==
    /\ pc = "vi_loop" /\ NeverConverging
    /\ S = 1 /\ A = 1 /\ fgt[epsilon, Zero]
    /\ iters = MaxIters
(***************************************************************************)
(* C11: under any sequence of reset() and step() calls on an               *)
(* UncertaintyEstimatorWrapper, every step() returns an info dict with the *)
(* key 'exploration_bonus'; a step() yields bonus 0.0 without calling      *)
(* update only if no reset() or step() completed before it; every other    *)
(* step() calls update exactly once, with state equal to the observation   *)
(* the most recent preceding reset() or step() returned; and after a       *)
(* step() previous_obs is the observation that step returned.              *)
(***************************************************************************)
SkippedUpdate == Len(last.updates) = 0 /\ last.bonus = Zero

StepAddsBonusAndUpdatesFromPreviousObservation ==
    (pc = "wrapper" /\ last.op = "step") =>
        /\ "exploration_bonus" \in DOMAIN last.info
        /\ last.info["exploration_bonus"] = last.bonus
        /\ SkippedUpdate => last.completed_before = 0
        /\ ~SkippedUpdate =>
              /\ Len(last.updates) = 1
              /\ last.completed_before >= 1
              /\ last.updates[1].state = last.returned_before
        /\ previous_obs = last.observation

\* a step() after a reset() and a step(), updating from the earlier step's
\* observation, on an info dict that already had other keys
StepAddsBonusAndUpdatesFromPreviousObservationWitness ==
    /\ pc = "wrapper" /\ last.op = "step"
    /\ last.completed_before = 2
    /\ n_updates = 2
    /\ Len(last.updates) = 1
    /\ last.updates[1].state # last.observation
    /\ "steps" \in DOMAIN last.info
    /\ last.bonus = <<2, 1>>
====
